---- MODULE Spec2Model ----
(***************************************************************************)
(* Retinal DR classification service: backend/model.py (EfficientNetGAT,   *)
(* its grid-edge builder and forward pass) and backend/main.py (startup,   *)
(* POST /predict, GET /).                                                  *)
(*                                                                         *)
(* Two specifications:                                                     *)
(*   SpecGrid  runs _create_grid_edges(height, width) one inner-loop       *)
(*             iteration per step, for every grid size in 0..MaxDim;       *)
(*   Spec      runs the module-level startup of main.py and then serves    *)
(*             interleaved /predict and / requests.                        *)
(***************************************************************************)
EXTENDS Integers, Sequences, FiniteSets, Bags, TLC

VARIABLES
    \* ---- _create_grid_edges: arguments, loop variables, local list, result
    gpc, height, width, i, j, di, dj, edge_index, grid_result,
    \* ---- main.py: module-level position, environment, model object,
    \*      handlers suspended at `await file.read()`, responses sent
    pc, weights_file, static_dir, model, inflight, responses, accepted

gridVars == <<gpc, height, width, i, j, di, dj, edge_index, grid_result>>
srvVars  == <<pc, weights_file, static_dir, model, inflight, responses, accepted>>
vars     == <<gpc, height, width, i, j, di, dj, edge_index, grid_result,
              pc, weights_file, static_dir, model, inflight, responses, accepted>>

(***************************************************************************)
(* Bounds of the model and constants of the program.                       *)
(***************************************************************************)
MaxDim == 7          \* grid sizes explored by SpecGrid: 0..MaxDim each way
GridH == 7           \* self._create_grid_edges(7, 7)
GridW == 7
NumClasses == 5      \* EfficientNetGAT(num_classes=5)

(***************************************************************************)
(* model.py: _create_grid_edges                                            *)
(***************************************************************************)
\* `if di == 0 and dj == 0: continue` with the conjunction loosened.
IsCentreLoose(ddi, ddj) == ddi = 0 \/ ddj = 0

\* `if di == 0 and dj == 0: continue`
IsCentre(ddi, ddj) == ddi = 0 /\ ddj = 0

\* `0 <= ni < height and 0 <= nj < width` with the upper tests off by one.
InBoundsOffByOne(ni, nj, h, w) == 0 <= ni /\ ni <= h /\ 0 <= nj /\ nj <= w

\* `0 <= ni < height and 0 <= nj < width`
InBounds(ni, nj, h, w) == 0 <= ni /\ ni < h /\ 0 <= nj /\ nj < w

\* One execution of the innermost loop body: the list after it.
GridBody(h, w, ci, cj, ddi, ddj, edges) ==
    LET node == ci * w + cj
        ni == ci + ddi
        nj == cj + ddj
    IN  IF IsCentre(ddi, ddj) THEN edges
        ELSE IF InBounds(ni, nj, h, w)
             THEN Append(edges, <<node, ni * w + nj>>)
             ELSE edges

\* torch.tensor(edge_index).t(): the N x 2 list as a 2 x N tensor, row 1 the
\* sources and row 2 the targets.
Transpose(edges) ==
    << [k \in 1..Len(edges) |-> edges[k][1]],
       [k \in 1..Len(edges) |-> edges[k][2]] >>

\* `for di in [-1, 0, 1]: for dj in [-1, 0, 1]:` for one cell: the edges the
\* first n + 1 of its nine iterations append, in source order.
RECURSIVE CellLoop(_, _, _, _, _)
CellLoop(h, w, ci, cj, n) ==
    IF n < 0 THEN <<>>
    ELSE GridBody(h, w, ci, cj, (n \div 3) - 1, (n % 3) - 1,
                  CellLoop(h, w, ci, cj, n - 1))

\* `for j in range(width):` for one row: the edges of its first cj + 1 cells.
RECURSIVE RowLoop(_, _, _, _)
RowLoop(h, w, ci, cj) ==
    IF cj < 0 THEN <<>>
    ELSE RowLoop(h, w, ci, cj - 1) \o CellLoop(h, w, ci, cj, 8)

\* `for i in range(height):` the edges of the first ci + 1 rows.
RECURSIVE GridLoop(_, _, _)
GridLoop(h, w, ci) ==
    IF ci < 0 THEN <<>>
    ELSE GridLoop(h, w, ci - 1) \o RowLoop(h, w, ci, w - 1)

\* The whole function, as one value.
CreateGridEdges(h, w) == Transpose(GridLoop(h, w, h - 1))

\* ---- the same function, one inner iteration per step -------------------
GridInit ==
    /\ gpc = "entry"
    /\ height \in 0..MaxDim
    /\ width \in 0..MaxDim
    /\ i = 0 /\ j = 0 /\ di = -1 /\ dj = -1
    /\ edge_index = <<>>
    /\ grid_result = <<>>

\* `edge_index = []` and entry into the loops (range() of 0 runs no body).
GridEnter ==
    /\ gpc = "entry"
    /\ gpc' = IF height > 0 /\ width > 0 THEN "loop" ELSE "return"
    /\ UNCHANGED <<height, width, i, j, di, dj, edge_index, grid_result>>
    /\ UNCHANGED srvVars

\* One iteration of `for dj in [-1, 0, 1]` and the advance of the loops
\* around it.
GridIterate ==
    /\ gpc = "loop"
    /\ edge_index' = GridBody(height, width, i, j, di, dj, edge_index)
    /\ IF dj < 1
       THEN /\ dj' = dj + 1
            /\ UNCHANGED <<di, j, i, gpc>>
       ELSE IF di < 1
       THEN /\ dj' = -1 /\ di' = di + 1
            /\ UNCHANGED <<j, i, gpc>>
       ELSE IF j < width - 1
       THEN /\ dj' = -1 /\ di' = -1 /\ j' = j + 1
            /\ UNCHANGED <<i, gpc>>
       ELSE IF i < height - 1
       THEN /\ dj' = -1 /\ di' = -1 /\ j' = 0 /\ i' = i + 1
            /\ UNCHANGED gpc
       ELSE /\ gpc' = "return"
            /\ UNCHANGED <<dj, di, j, i>>
    /\ UNCHANGED <<height, width, grid_result>>
    /\ UNCHANGED srvVars

\* `return torch.tensor(edge_index, dtype=torch.long).t().contiguous()`
GridReturn ==
    /\ gpc = "return"
    /\ grid_result' = Transpose(edge_index)
    /\ gpc' = "done"
    /\ UNCHANGED <<height, width, i, j, di, dj, edge_index>>
    /\ UNCHANGED srvVars

GridNext == GridEnter \/ GridIterate \/ GridReturn


(***************************************************************************)
(* model.py: EfficientNetGAT, with scalar stand-ins for the tensors.  An   *)
(* image is its pixel content px; the layers are linear maps with integer  *)
(* parameters taken from the loaded state dict.                            *)
(***************************************************************************)
MaxPixel == 2        \* decodable images have content px in 0..MaxPixel
MaxRequests == 3     \* requests accepted in one run
FracBits == 12       \* fraction bits of the arithmetic that stands for float32

Classes == 0..(NumClasses - 1)
ProbOne == 2 ^ FracBits

\* No parameters: the name `model` is not bound yet, or the file holds none
\* that fit.
NoParams ==
    [transform |-> 0, gat |-> 0,
     fc_w |-> [c \in Classes |-> <<0, 0>>],
     fc_b |-> [c \in Classes |-> 0]]

NoModel ==
    [training |-> FALSE, weights |-> NoParams, bn_tracked |-> 0,
     edge_index |-> <<>>]

\* Parameters as __init__ leaves them (pretrained backbone, fresh layers).
InitParams ==
    [transform |-> 1, gat |-> 1,
     fc_w |-> [c \in Classes |-> <<1, 1>>],
     fc_b |-> [c \in Classes |-> 0]]

\* Contents best_model.pth may have: two trained state dicts with the
\* model's keys, a state dict of another architecture, or no file.
TrainedA ==
    [transform |-> 1, gat |-> 1,
     fc_w |-> [c \in Classes |-> <<3 * c - 9, IF c = 3 THEN 3 ELSE 0>>],
     fc_b |-> [c \in Classes |-> 0]]

TrainedB ==
    [transform |-> 2, gat |-> 1,
     fc_w |-> [c \in Classes |-> <<4 - 2 * c, IF c = NumClasses - 1 THEN 1 ELSE 0>>],
     fc_b |-> [c \in Classes |-> c]]

WeightFiles ==
    { [status |-> "ok", params |-> TrainedA, bn_tracked |-> 40],
      [status |-> "ok", params |-> TrainedB, bn_tracked |-> 90],
      [status |-> "incompatible", params |-> NoParams, bn_tracked |-> 0],
      [status |-> "absent", params |-> NoParams, bn_tracked |-> 0] }

\* F.elu on the model's integers: x for x > 0, exp(x) - 1 rounded otherwise.
Elu(x) == IF x > 0 THEN x ELSE IF x = 0 THEN 0 ELSE -1

\* F.dropout(x, p=0.2, training): in training an element is zeroed or
\* scaled by 1/(1-p) = 5/4; outside training it is returned as is.
Dropout(x, keep, training) ==
    IF training THEN (IF keep THEN (5 * x) \div 4 ELSE 0) ELSE x

\* forward(): backbone and projection, the attention stack with its dropout,
\* concatenation and pooling, and the final linear layer: one raw score per
\* class.
Forward(m, px, keep) ==
    LET node_features == m.weights.transform * px
        x_gat == Dropout(Elu(m.weights.gat * node_features), keep, m.training)
        pooled == <<node_features, x_gat>>
    IN  [c \in Classes |->
            m.weights.fc_w[c][1] * pooled[1] +
            m.weights.fc_w[c][2] * pooled[2] + m.weights.fc_b[c]]

\* A forward pass that updates the running statistics in every mode.
ForwardEffectAlways(m) == [m EXCEPT !.bn_tracked = @ + 1]

\* What a forward pass does to the module: batch-norm layers of the backbone
\* update their running statistics in training mode only.
ForwardEffect(m) ==
    IF m.training THEN [m EXCEPT !.bn_tracked = @ + 1] ELSE m

(***************************************************************************)
(* main.py: softmax, arg-max and the response of /predict                  *)
(***************************************************************************)
RECURSIVE SumTo(_, _)
SumTo(f, n) == IF n < 0 THEN 0 ELSE f[n] + SumTo(f, n - 1)

MaxOf(f) == CHOOSE v \in {f[c] : c \in DOMAIN f} : \A c \in DOMAIN f : f[c] <= v

\* exp(d) for d <= 0 in fixed point: exp(-1) is taken as 3/8 and every
\* multiplication is rounded, so small terms underflow to 0.
RECURSIVE ExpFixed(_)
ExpFixed(d) == IF d >= 0 THEN ProbOne ELSE (3 * ExpFixed(d + 1) + 4) \div 8

\* Softmax that divides by the largest term instead of the sum.
SoftmaxByMax(x) ==
    LET m == MaxOf(x)
        e == [c \in DOMAIN x |-> ExpFixed(x[c] - m)]
    IN  [c \in DOMAIN x |-> (2 * e[c] * ProbOne + ProbOne) \div (2 * ProbOne)]

\* F.softmax(output[0], dim=0): exp(x - max) / sum, each division rounded to
\* the nearest representable value.
Softmax(x) ==
    LET m == MaxOf(x)
        e == [c \in DOMAIN x |-> ExpFixed(x[c] - m)]
        s == SumTo(e, NumClasses - 1)
    IN  [c \in DOMAIN x |-> (2 * e[c] * ProbOne + s) \div (2 * s)]

\* torch.max that reports the first entry whatever the values are.
TorchMaxFirst(p) == [value |-> p[0], index |-> 0]

\* torch.max(probabilities, 0): the maximum and the first index holding it.
TorchMax(p) ==
    LET v == MaxOf(p)
    IN  [value |-> v,
         index |-> CHOOSE c \in DOMAIN p :
                       p[c] = v /\ \A b \in DOMAIN p : p[b] = v => c <= b]

CLASS_NAMES == <<"No DR", "Mild", "Moderate", "Severe", "Proliferative">>

\* Indexing the list from 1 with the 0-based class.
ClassNameShifted(c) == CLASS_NAMES[((c + 1) % NumClasses) + 1]

\* CLASS_NAMES[predicted_class.item()] (the list is 0-based in the source).
ClassName(c) == CLASS_NAMES[c + 1]

\* Uploaded bytes: a decodable image, bytes no decoder accepts, an image cut
\* short after its header, or a GIF that ends right after its header.
Uploads ==
    [kind : {"image"}, px : 0..MaxPixel]
      \cup [kind : {"not_image", "truncated", "gif_header_only"}, px : {0}]

\* Image.open(io.BytesIO(contents)): the image, or the decoder's exception.
ImageOpen(u) ==
    CASE u.kind = "not_image" ->
            [ok |-> FALSE, msg |-> "cannot identify image file"]
      [] u.kind = "gif_header_only" ->
            [ok |-> FALSE, msg |-> ""]            \* a bare `raise EOFError`
      [] OTHER -> [ok |-> TRUE, msg |-> ""]

\* .convert("RGB"): loads the pixel data.
ConvertRGB(u) ==
    IF u.kind = "truncated"
    THEN [ok |-> FALSE, msg |-> "image file is truncated"]
    ELSE [ok |-> TRUE, msg |-> ""]

\* What the environment can do to one request besides the upload itself.
Faults == {"none", "read", "inference"}

\* The exception reported as a server error, whatever status is asked for.
HTTPExceptionAs500(status_code, detail) ==
    [status |-> 500, body |-> [detail |-> detail]]

\* raise HTTPException(status_code=400, detail=str(e))
HTTPException(status_code, detail) ==
    [status |-> status_code, body |-> [detail |-> detail]]

\* Whether the request gets as far as calling the model.
ReachesForward(u, fault) ==
    fault # "read" /\ ImageOpen(u).ok /\ ConvertRGB(u).ok

\* predict(): the body of the handler from `contents = await file.read()` on.
Predict(m, u, fault, keep) ==
    IF fault = "read"
    THEN HTTPException(400, "error reading upload")
    ELSE IF ~ImageOpen(u).ok THEN HTTPException(400, ImageOpen(u).msg)
    ELSE IF ~ConvertRGB(u).ok THEN HTTPException(400, ConvertRGB(u).msg)
    ELSE IF fault = "inference" THEN HTTPException(400, "out of memory")
    ELSE LET output == Forward(m, u.px, keep)
             probabilities == Softmax(output)
             mx == TorchMax(probabilities)
         IN  [status |-> 200,
              body |-> [class |-> mx.index,
                        class_name |-> ClassName(mx.index),
                        confidence |-> mx.value,
                        probabilities |-> probabilities,
                        class_names |-> CLASS_NAMES]]

\* A root handler that reports on the traffic seen so far.
ReadRootStateful ==
    [message |-> IF responses = EmptyBag THEN "Retinal DR Classification API"
                 ELSE "busy"]

\* read_root()
ReadRoot == [message |-> "Retinal DR Classification API"]


(***************************************************************************)
(* main.py: module-level startup, in source order                          *)
(***************************************************************************)
SrvInit ==
    /\ pc = "construct"
    /\ weights_file \in WeightFiles
    /\ static_dir \in BOOLEAN
    /\ model = NoModel
    /\ inflight = EmptyBag
    /\ responses = EmptyBag
    /\ accepted = 0

GridIdle ==
    /\ gpc = "idle"
    /\ height = 0 /\ width = 0
    /\ i = 0 /\ j = 0 /\ di = 0 /\ dj = 0
    /\ edge_index = <<>>
    /\ grid_result = <<>>

\* model = EfficientNetGAT(num_classes=5).to(device): a new nn.Module is in
\* training mode; __init__ builds the fixed edge index.
Construct ==
    /\ pc = "construct"
    /\ model' = [training |-> TRUE, weights |-> InitParams, bn_tracked |-> 0,
                 edge_index |-> CreateGridEdges(GridH, GridW)]
    /\ pc' = "load"
    /\ UNCHANGED <<weights_file, static_dir, inflight, responses, accepted>>
    /\ UNCHANGED gridVars

\* A loader that keeps the constructed parameters when the file is unusable.
LoadOrKeep(m, f) ==
    IF f.status = "ok"
    THEN [ok |-> TRUE,
          model |-> [m EXCEPT !.weights = f.params, !.bn_tracked = f.bn_tracked]]
    ELSE [ok |-> TRUE, model |-> m]

\* model.load_state_dict(torch.load("best_model.pth", ...)): raises when the
\* file is absent or its keys do not fit; the exception is not caught.
LoadStateDictResult(m, f) ==
    IF f.status = "ok"
    THEN [ok |-> TRUE,
          model |-> [m EXCEPT !.weights = f.params, !.bn_tracked = f.bn_tracked]]
    ELSE [ok |-> FALSE, model |-> m]

LoadStateDict ==
    /\ pc = "load"
    /\ LET r == LoadStateDictResult(model, weights_file)
       IN  /\ model' = r.model
           /\ pc' = IF r.ok THEN "eval" ELSE "crashed"
    /\ UNCHANGED <<weights_file, static_dir, inflight, responses, accepted>>
    /\ UNCHANGED gridVars

\* Startup without the switch to evaluation mode.
EvalOmitted(m) == m

\* model.eval()
Eval(m) == [m EXCEPT !.training = FALSE]

ModelEval ==
    /\ pc = "eval"
    /\ model' = Eval(model)
    /\ pc' = "mount"
    /\ UNCHANGED <<weights_file, static_dir, inflight, responses, accepted>>
    /\ UNCHANGED gridVars

\* app.mount("/static", StaticFiles(directory="static"), ...): StaticFiles
\* raises when the directory does not exist; then the import fails.
MountStatic ==
    /\ pc = "mount"
    /\ pc' = IF static_dir THEN "serving" ELSE "crashed"
    /\ UNCHANGED <<weights_file, static_dir, model, inflight, responses, accepted>>
    /\ UNCHANGED gridVars

(***************************************************************************)
(* main.py: the request handlers                                           *)
(***************************************************************************)
Response(kind, u, r) ==
    [kind |-> kind, upload |-> u, status |-> r.status, body |-> r.body]

NoUpload == [kind |-> "none", px |-> 0]

\* POST /predict arrives: the handler runs up to `await file.read()`.
PredictAccept ==
    /\ pc = "serving"
    /\ accepted < MaxRequests
    /\ \E u \in Uploads : inflight' = inflight (+) SetToBag({u})
    /\ accepted' = accepted + 1
    /\ UNCHANGED <<pc, weights_file, static_dir, model, responses>>
    /\ UNCHANGED gridVars

\* The read completes and the handler runs to its return (or to the
\* HTTPException) without another await.
PredictFinish ==
    /\ pc = "serving"
    /\ \E u \in BagToSet(inflight), fault \in Faults, keep \in BOOLEAN :
          /\ inflight' = inflight (-) SetToBag({u})
          /\ responses' = responses (+)
                SetToBag({Response("predict", u, Predict(model, u, fault, keep))})
          /\ model' = IF ReachesForward(u, fault) THEN ForwardEffect(model)
                      ELSE model
    /\ UNCHANGED <<pc, weights_file, static_dir, accepted>>
    /\ UNCHANGED gridVars

\* GET /
GetRoot ==
    /\ pc = "serving"
    /\ accepted < MaxRequests
    /\ accepted' = accepted + 1
    /\ responses' = responses (+)
          SetToBag({Response("root", NoUpload, [status |-> 200, body |-> ReadRoot])})
    /\ UNCHANGED <<pc, weights_file, static_dir, model, inflight>>
    /\ UNCHANGED gridVars

Init == SrvInit /\ GridIdle

Next ==
    \/ Construct
    \/ LoadStateDict
    \/ ModelEval
    \/ MountStatic
    \/ PredictAccept
    \/ PredictFinish
    \/ GetRoot

Spec == Init /\ [][Next]_vars

\* SpecGrid leaves the service untouched.
SrvOff ==
    /\ pc = "off"
    /\ weights_file = [status |-> "absent", params |-> NoParams, bn_tracked |-> 0]
    /\ static_dir = FALSE
    /\ model = NoModel
    /\ inflight = EmptyBag
    /\ responses = EmptyBag
    /\ accepted = 0

InitGrid == GridInit /\ SrvOff

SpecGrid == InitGrid /\ [][GridNext]_vars

(***************************************************************************)
(* Properties                                                              *)
(***************************************************************************)
Sent == BagToSet(responses)
Ok200 == {r \in Sent : r.kind = "predict" /\ r.status = 200}
GridDone == gpc = "done"
NumEdges == Len(grid_result[1])

\* C1: _create_grid_edges(7, 7) returns 312 edges (4 corner cells with 3
\* neighbours, 20 border cells with 5, 25 interior cells with 8), none of
\* them a self-loop.
C1_Grid7x7Has312EdgesNoSelfLoop ==
    (GridDone /\ height = 7 /\ width = 7) =>
        /\ Len(grid_result[1]) = 312
        /\ Len(grid_result[2]) = 312
        /\ 4 * 3 + 20 * 5 + 25 * 8 = Len(grid_result[1])
        /\ \A k \in 1..Len(grid_result[1]) : grid_result[1][k] # grid_result[2][k]

C1_Witness ==
    GridDone /\ height = 7 /\ width = 7 /\ NumEdges = 312

\* C10: for every grid size, the returned edge list is symmetric ((b, a) is
\* in it whenever (a, b) is), every endpoint is a node index in
\* 0..height*width-1, and no directed edge appears twice.
C10_GridEdgesSymmetricWellFormed ==
    GridDone =>
        LET src == grid_result[1]
            dst == grid_result[2]
            n == Len(src)
        IN  /\ Len(dst) = n
            /\ \A k \in 1..n :
                  /\ src[k] \in 0..(height * width - 1)
                  /\ dst[k] \in 0..(height * width - 1)
                  /\ \E l \in 1..n : src[l] = dst[k] /\ dst[l] = src[k]
                  /\ \A l \in 1..n : (src[l] = src[k] /\ dst[l] = dst[k]) => l = k

C10_Witness ==
    GridDone /\ height = 3 /\ width = 2 /\ NumEdges = 22

\* C2: in every successful /predict response, `class` is the index of a
\* maximum entry of `probabilities` and `confidence` is that maximum.
C2_ClassIsArgmaxConfidenceIsMax ==
    \A r \in Ok200 :
        /\ r.body.class \in DOMAIN r.body.probabilities
        /\ \A c \in DOMAIN r.body.probabilities :
              r.body.probabilities[c] <= r.body.probabilities[r.body.class]
        /\ r.body.confidence = r.body.probabilities[r.body.class]

\* A response whose maximum is held by entries 3 and 4, and one where all
\* five entries are equal.
C2_Witness ==
    /\ \E r \in Ok200 : r.body.class = 3
          /\ r.body.probabilities[4] = r.body.probabilities[3]
          /\ r.body.probabilities[0] < r.body.probabilities[3]
    /\ \E r \in Ok200 : r.body.class = 0
          /\ r.body.probabilities[4] = r.body.probabilities[0]

C4_ProbabilitiesAreADistribution ==
    \A r \in Ok200 :
        LET p == r.body.probabilities
            total == SumTo(p, 4)
        IN  /\ DOMAIN p = 0..4
            /\ Cardinality(DOMAIN p) = 5
            /\ \A c \in DOMAIN p : p[c] >= 0 /\ p[c] <= ProbOne
            /\ 2 * (total - ProbOne) <= 5
            /\ 2 * (ProbOne - total) <= 5

\* A response whose sum is off 1 by rounding and has an entry of 0.
C4_Witness ==
    /\ \E r \in Ok200 : SumTo(r.body.probabilities, 4) # ProbOne
    /\ \E r \in Ok200 : \E c \in Classes : r.body.probabilities[c] = 0

\* C5: while the service runs, no step changes the shared model object: its
\* parameters and buffers, its mode and its edge index stay what startup left.
C5_ModelNeverMutated ==
    [][pc = "serving" => model' = model]_vars

C5_Witness ==
    /\ pc = "serving"
    /\ model.training = FALSE
    /\ model.edge_index = CreateGridEdges(7, 7)
    /\ model.weights = weights_file.params
    /\ model.bn_tracked = weights_file.bn_tracked
    /\ \E r \in Ok200 : TRUE
    /\ \E r \in Sent : r.kind = "predict" /\ r.status = 400
    /\ inflight # EmptyBag

\* C6: every GET / response is HTTP 200 with the one greeting, whatever
\* /predict traffic there was.
C6_RootAlwaysGreets ==
    \A r \in Sent :
        r.kind = "root" =>
            r.status = 200 /\ r.body = [message |-> "Retinal DR Classification API"]

C6_Witness ==
    /\ \E r \in Sent : r.kind = "root"
    /\ \E r \in Ok200 : TRUE
    /\ \E r \in Sent : r.kind = "predict" /\ r.status = 400

\* C7: in every successful /predict response class_name is
\* class_names[class] and class_names is the fixed list of five labels.
C7_ClassNameMatchesClass ==
    \A r \in Ok200 :
        /\ r.body.class_names =
              <<"No DR", "Mild", "Moderate", "Severe", "Proliferative">>
        /\ r.body.class_name = r.body.class_names[r.body.class + 1]

C7_Witness ==
    /\ \E r \in Ok200 : r.body.class = 4 /\ r.body.class_name = "Proliferative"
    /\ \E r \in Ok200 : r.body.class = 0 /\ r.body.class_name = "No DR"

\* C8: two successful /predict calls on the same bytes return the same
\* class, confidence and probabilities, and the model is in evaluation mode
\* whenever requests are served.
C8_SameBytesSameAnswer ==
    /\ \A r1, r2 \in Ok200 : r1.upload = r2.upload => r1.body = r2.body
    /\ pc = "serving" => model.training = FALSE

\* The same image answered twice, another request answered as well.
C8_Witness ==
    \E r \in Ok200 :
        /\ CopiesIn(r, responses) >= 2
        /\ r.upload.px > 0
        /\ \E q \in Sent : q.upload # r.upload

\* C9: when the weights file cannot be loaded the process never gets to
\* serve: no request is accepted and no response produced; any request
\* handled is handled by a model holding the file's weights.
C9_LoadFailureIsFatal ==
    /\ weights_file.status # "ok" =>
          /\ pc \in {"construct", "load", "crashed"}
          /\ inflight = EmptyBag /\ responses = EmptyBag /\ accepted = 0
    /\ (inflight # EmptyBag \/ responses # EmptyBag) =>
          /\ weights_file.status = "ok"
          /\ model.weights = weights_file.params

C9_Witness ==
    pc = "crashed" /\ weights_file.status \in {"absent", "incompatible"}
      /\ responses = EmptyBag

====
